---- MODULE Spec2Model ----
(***************************************************************************)
(* qs2rdf.py: conversion of a QuickStatements dataset into Wikidata RDF.   *)
(*                                                                         *)
(* Python strings are modelled as sequences of one-character strings, so   *)
(* that the regular expressions, strip/split/replace and the string        *)
(* formatting of the program are computed character by character.          *)
(* An rdflib term (URIRef, Literal) is a record of its constructor         *)
(* arguments; the rdflib Graph is a set of triples.                        *)
(***************************************************************************)
EXTENDS Naturals, Sequences, FiniteSets

\* F(e), with e evaluated once
Let(e, F(_)) == CHOOSE r \in {F(x) : x \in {e}} : TRUE

(***************************************************************************)
(* Characters                                                              *)
(***************************************************************************)
DigitSeq == <<"0","1","2","3","4","5","6","7","8","9">>

Digits == {DigitSeq[i] : i \in 1..10}

LowerSeq ==
  <<"a","b","c","d","e","f","g","h","i","j","k","l","m",
    "n","o","p","q","r","s","t","u","v","w","x","y","z">>

UpperSeq ==
  <<"A","B","C","D","E","F","G","H","I","J","K","L","M",
    "N","O","P","Q","R","S","T","U","V","W","X","Y","Z">>

Letters == {LowerSeq[i] : i \in 1..26} \cup {UpperSeq[i] : i \in 1..26}

\* \w of the re module, restricted to ASCII
WordChars == Letters \cup Digits \cup {"_"}

\* the characters str.strip() removes, restricted to the ones a text line holds
Whitespace == {" ", "\t", "\n", "\r"}

\* scheme_chars of urllib.parse
SchemeChars == Letters \cup Digits \cup {"+", "-", "."}

(***************************************************************************)
(* str methods                                                             *)
(***************************************************************************)
\* s[from:] of Python, 1-based: the suffix starting at index from
From(s, from) == SubSeq(s, from, Len(s))

\* str.find(c) for a single character, 1-based; 0 when absent
Find(s, c) ==
  IF \E i \in 1..Len(s) : s[i] = c
    THEN CHOOSE i \in 1..Len(s) : s[i] = c /\ \A j \in 1..(i-1) : s[j] # c
    ELSE 0

\* str.strip(chars): drops every leading and trailing character of chars
LStripIndex(s, chars) ==
  IF \A i \in 1..Len(s) : s[i] \in chars THEN Len(s) + 1
  ELSE CHOOSE i \in 1..Len(s) : s[i] \notin chars /\ \A j \in 1..(i-1) : s[j] \in chars

RStripIndex(s, chars) ==
  IF \A i \in 1..Len(s) : s[i] \in chars THEN 0
  ELSE CHOOSE i \in 1..Len(s) :
         s[i] \notin chars /\ \A j \in (i+1)..Len(s) : s[j] \in chars

strip(s, chars) == SubSeq(s, LStripIndex(s, chars), RStripIndex(s, chars))

\* str.split(sep) for a single-character separator: always at least one field
\* the index of the k-th separator; 0 before the first field, Len(s) + 1
\* after the last
SepIndex(s, sep, k) ==
  LET seps == {i \in 1..Len(s) : s[i] = sep}
  IN  IF k = 0 THEN 0
      ELSE IF k > Cardinality(seps) THEN Len(s) + 1
      ELSE CHOOSE i \in seps : Cardinality({j \in seps : j < i}) = k - 1

split(s, sep) ==
  [k \in 1..(Cardinality({i \in 1..Len(s) : s[i] = sep}) + 1) |->
     SubSeq(s, SepIndex(s, sep, k - 1) + 1, SepIndex(s, sep, k) - 1)]

\* str.startswith(c) for a single character
startswith(s, c) == s # <<>> /\ s[1] = c

\* str.replace(old, new) for single characters: every occurrence
replace(s, old, new) == [i \in 1..Len(s) |-> IF s[i] = old THEN new ELSE s[i]]

\* str.lower() on ASCII
LowerChar(c) ==
  IF \E i \in 1..26 : UpperSeq[i] = c
    THEN LowerSeq[CHOOSE i \in 1..26 : UpperSeq[i] = c]
    ELSE c

lower(s) == [i \in 1..Len(s) |-> LowerChar(s[i])]

\* \d+
AllDigits(s) == s # <<>> /\ \A i \in 1..Len(s) : s[i] \in Digits

\* int(s) for a string of decimal digits
DigitVal(c) == (CHOOSE i \in 1..10 : DigitSeq[i] = c) - 1

RECURSIVE IntPrefix(_, _)
IntPrefix(s, k) ==
  IF k = 0 THEN 0 ELSE 10 * IntPrefix(s, k - 1) + DigitVal(s[k])

int(s) == IntPrefix(s, Len(s))

\* '%d' % n
RECURSIVE FormatD(_)
FormatD(n) ==
  IF n < 10 THEN <<DigitSeq[n + 1]>>
  ELSE FormatD(n \div 10) \o <<DigitSeq[(n % 10) + 1]>>

\* zero padding on the left up to a minimum width
ZeroPad(s, width) ==
  IF Len(s) >= width THEN s ELSE [i \in 1..(width - Len(s)) |-> "0"] \o s

\* '%d' % n in place of '%04d' % n: no padding
Format04d_unpadded(n) == FormatD(n)

\* '%04d' % n
Format04d(n) == ZeroPad(FormatD(n), 4)

(***************************************************************************)
(* Namespaces                                                              *)
(***************************************************************************)
BASE_URI ==
  <<"h","t","t","p",":","/","/","w","w","w",".","w","i","k","i","d","a","t","a",
    ".","o","r","g","/">>

WD == BASE_URI \o <<"e","n","t","i","t","y","/">>

WDS == WD \o <<"s","t","a","t","e","m","e","n","t","/">>

WDREF == BASE_URI \o <<"r","e","f","e","r","e","n","c","e","/">>

P == BASE_URI \o <<"p","r","o","p","/">>

PS == P \o <<"s","t","a","t","e","m","e","n","t","/">>

PQ == P \o <<"q","u","a","l","i","f","i","e","r","/">>

PR == P \o <<"r","e","f","e","r","e","n","c","e","/">>

PROV ==
  <<"h","t","t","p",":","/","/","w","w","w",".","w","3",".","o","r","g","/",
    "n","s","/","p","r","o","v","#">>

\* datatype IRIs are only ever compared as a whole
GEO_wktLiteral == "http://www.opengis.net/ont/geosparql#wktLiteral"

XSD_dateTime == "http://www.w3.org/2001/XMLSchema#dateTime"

XSD_decimal == "http://www.w3.org/2001/XMLSchema#decimal"

(***************************************************************************)
(* rdflib terms                                                            *)
(***************************************************************************)
URIRef(s) == [term |-> "URIRef", str |-> s, datatype |-> "", lang |-> <<>>]

Literal(s, datatype, lang) ==
  [term |-> "Literal", str |-> s, datatype |-> datatype, lang |-> lang]

None == [term |-> "None", str |-> <<>>, datatype |-> "", lang |-> <<>>]

\* PROV.wasDerivedFrom
PROV_wasDerivedFrom ==
  URIRef(PROV \o <<"w","a","s","D","e","r","i","v","e","d","F","r","o","m">>)

\* "not value" of Python: None is false; a URIRef is a str, false when empty;
\* a Literal has the truth value of its Python value (an xsd:decimal of value
\* zero is false), and that of its lexical form when it is text
AllZeroDigits(s) == \A i \in 1..Len(s) : s[i] \in {"0", "."}

Falsy(t) ==
  \/ t.term = "None"
  \/ t.term = "URIRef" /\ t.str = <<>>
  \/ t.term = "Literal" /\ t.datatype = "" /\ t.str = <<>>
  \/ t.term = "Literal" /\ t.datatype = XSD_decimal /\ AllZeroDigits(Tail(t.str))

(***************************************************************************)
(* Value data types matchers                                               *)
(***************************************************************************)
\* ITEM = ^Q\d+$
ITEM_match(s) == startswith(s, "Q") /\ AllDigits(Tail(s))

\* a matcher that takes any letter for the sigil: ^[A-Za-z]\d+$
PROPERTY_match_any_letter(s) ==
  s # <<>> /\ s[1] \in Letters /\ AllDigits(Tail(s))

\* PROPERTY = ^P\d+$
PROPERTY_match(s) == startswith(s, "P") /\ AllDigits(Tail(s))

\* -\d\d-\d\dT\d\d:\d\d:\d\dZ\/\d+$ : the part of TIME after the year
TimeTail(r) ==
  /\ Len(r) >= 18
  /\ r[1] = "-" /\ r[2] \in Digits /\ r[3] \in Digits
  /\ r[4] = "-" /\ r[5] \in Digits /\ r[6] \in Digits
  /\ r[7] = "T" /\ r[8] \in Digits /\ r[9] \in Digits
  /\ r[10] = ":" /\ r[11] \in Digits /\ r[12] \in Digits
  /\ r[13] = ":" /\ r[14] \in Digits /\ r[15] \in Digits
  /\ r[16] = "Z" /\ r[17] = "/"
  /\ AllDigits(From(r, 18))

\* TIME = ^[+-]\d+-\d\d-\d\dT\d\d:\d\d:\d\dZ\/\d+$
TIME_match(s) ==
  /\ s # <<>> /\ s[1] \in {"+", "-"}
  /\ \E k \in 2..Len(s) : AllDigits(SubSeq(s, 2, k)) /\ TimeTail(From(s, k + 1))

\* [+\-]? : the sign is consumed when there is one (a digit must follow)
Unsigned(s) == IF s # <<>> /\ s[1] \in {"+", "-"} THEN Tail(s) ELSE s

\* \d+.\d+ where . is any character but a newline
DigitsAnyDigits(s) ==
  \E j \in 2..(Len(s) - 1) :
    /\ AllDigits(SubSeq(s, 1, j - 1))
    /\ s[j] # "\n"
    /\ AllDigits(From(s, j + 1))

\* group 1 of LOCATION: [+\-]?\d+(?:.\d+)?
LocationLat(s) == AllDigits(Unsigned(s)) \/ DigitsAnyDigits(Unsigned(s))

\* group 2 of LOCATION, optional as a whole: ([+\-]?\d+(?:.\d+))?
LocationLon(s) == s = <<>> \/ DigitsAnyDigits(Unsigned(s))

\* LOCATION = ^@([+\-]?\d+(?:.\d+)?)\/([+\-]?\d+(?:.\d+))?$
LOCATION_match(s) ==
  /\ startswith(s, "@")
  /\ \E i \in 2..Len(s) :
       /\ s[i] = "/"
       /\ LocationLat(SubSeq(s, 2, i - 1))
       /\ LocationLon(From(s, i + 1))

\* QUANTITY = ^[+-]\d+(\.\d+)?$
QUANTITY_match(s) ==
  /\ s # <<>> /\ s[1] \in {"+", "-"}
  /\ LET i == Find(s, ".")
     IN  IF i = 0 THEN AllDigits(Tail(s))
         ELSE AllDigits(SubSeq(s, 2, i - 1)) /\ AllDigits(From(s, i + 1))

\* [^"\\]*(?:\\.[^"\\]*)* : the text between the quotes of MONOLINGUAL_TEXT
\* from index i to the end of s
RECURSIVE QuotedBodyFrom(_, _)
QuotedBodyFrom(s, i) ==
  \/ i > Len(s)
  \/ i <= Len(s) /\ s[i] \notin {"\"", "\\"} /\ QuotedBodyFrom(s, i + 1)
  \/ i < Len(s) /\ s[i] = "\\" /\ s[i + 1] # "\n" /\ QuotedBodyFrom(s, i + 2)

QuotedBody(s) == QuotedBodyFrom(s, 1)

\* MONOLINGUAL_TEXT = ^(\w+):("[^"\\]*(?:\\.[^"\\]*)*")$
\* \w+ holds no colon, so the colon after group 1 is the first one
MONOLINGUAL_TEXT_match(s) ==
  LET i == Find(s, ":")
      quoted == From(s, i + 1)
  IN  /\ i >= 2
      /\ \A j \in 1..(i - 1) : s[j] \in WordChars
      /\ Len(quoted) >= 2
      /\ quoted[1] = "\"" /\ quoted[Len(quoted)] = "\""
      /\ QuotedBody(SubSeq(quoted, 2, Len(quoted) - 1))

\* match.group(1) and match.group(2) of MONOLINGUAL_TEXT
MONOLINGUAL_TEXT_group1(s) == SubSeq(s, 1, Find(s, ":") - 1)

MONOLINGUAL_TEXT_group2(s) == From(s, Find(s, ":") + 1)
(***************************************************************************)
(* urllib.parse.urlparse: the scheme and netloc of the result, or the      *)
(* ValueError it raises                                                    *)
(***************************************************************************)
\* the scheme: the text before the first colon, when it starts with a letter
\* and holds scheme characters only
HasScheme(url) ==
  LET i == Find(url, ":")
  IN  /\ i >= 2
      /\ url[1] \in Letters
      /\ \A j \in 1..(i - 1) : url[j] \in SchemeChars

\* the text after "//" up to the first of "/", "?" and "#"
Netloc(s) ==
  IF \E i \in 1..Len(s) : s[i] \in {"/", "?", "#"}
    THEN SubSeq(s, 1, (CHOOSE i \in 1..Len(s) :
                         /\ s[i] \in {"/", "?", "#"}
                         /\ \A j \in 1..(i-1) : s[j] \notin {"/", "?", "#"}) - 1)
    ELSE s

urlparse(url) ==
  LET scheme == IF HasScheme(url)
                  THEN lower(SubSeq(url, 1, Find(url, ":") - 1)) ELSE <<>>
      rest   == IF HasScheme(url) THEN From(url, Find(url, ":") + 1) ELSE url
  IN  Let(IF Len(rest) >= 2 /\ rest[1] = "/" /\ rest[2] = "/"
            THEN Netloc(From(rest, 3)) ELSE <<>>,
          LAMBDA netloc :
            [exc    |-> IF (\E i \in 1..Len(netloc) : netloc[i] = "[")
                             # (\E i \in 1..Len(netloc) : netloc[i] = "]")
                          THEN "ValueError" ELSE "",
             scheme |-> scheme,
             netloc |-> netloc])

(***************************************************************************)
(* handle_value: the term of a value token.  The result is a record of the *)
(* exception raised ("" for a normal return), the term returned and the    *)
(* number of warnings logged.                                              *)
(***************************************************************************)
Return(t) == [exc |-> "", ret |-> t, warn |-> 0]

Raise(e) == [exc |-> e, ret |-> None, warn |-> 0]

\* the Time branch
handle_time(value) ==
  Let(SubSeq(value, 1, Find(value, "/") - 1), LAMBDA time :
  Let(IF time[1] = "-" THEN <<"-">> ELSE <<>>, LAMBDA bc :
  Let(Find(Tail(time), "-"), LAMBDA dash :
  Let(Format04d(int(SubSeq(Tail(time), 1, dash - 1))), LAMBDA year :
  Let(From(Tail(time), dash + 1), LAMBDA rest :
    IF year = <<"0","0","0","0">>
      THEN [exc |-> "", ret |-> None, warn |-> 1]
      ELSE Return(Literal(bc \o year \o <<"-">> \o rest, XSD_dateTime, <<>>)))))))

\* the last branch: URL or plain string
handle_other(value) ==
  Let(strip(value, {"\""}), LAMBDA no_quotes :
  Let(urlparse(no_quotes), LAMBDA parsed :
    IF parsed.exc # "" THEN Raise(parsed.exc)
    ELSE IF /\ Len(parsed.scheme) >= 4
            /\ SubSeq(parsed.scheme, 1, 4) = <<"h","t","t","p">>
            /\ parsed.netloc # <<>>
      THEN Return(URIRef(no_quotes))
      ELSE Return(Literal(no_quotes, "", <<>>))))

handle_value(value) ==
  IF ITEM_match(value) THEN Return(URIRef(WD \o value))
  ELSE IF MONOLINGUAL_TEXT_match(value)
    THEN Return(Literal(strip(MONOLINGUAL_TEXT_group2(value), {"\""}), "",
                        MONOLINGUAL_TEXT_group1(value)))
  ELSE IF TIME_match(value) THEN handle_time(value)
  \* the point literal is built, then the logging statement calls a str
  ELSE IF LOCATION_match(value) THEN Raise("TypeError")
  ELSE IF QUANTITY_match(value) THEN Return(Literal(value, XSD_decimal, <<>>))
  ELSE handle_other(value)
(***************************************************************************)
(* Node minting                                                            *)
(***************************************************************************)
\* str(uuid4()): the n-th random UUID drawn in the run, distinct from all the
\* UUIDs drawn before it
uuid4(n) == <<"u","u","i","d">> \o FormatD(n)

\* a statement node made of the subject alone
mint_statement_node_no_uuid(statement_subject, uuid) ==
  URIRef(WDS \o statement_subject)

mint_statement_node(statement_subject, uuid) ==
  URIRef(WDS \o statement_subject \o <<"-">> \o uuid)

\* sha1.hexdigest(): a one-to-one image of all the bytes the hash object was
\* updated with since its creation
hexdigest(bytes) == <<"s","h","a","1","(">> \o bytes \o <<")">>

\* SHA.update(reference_value.encode('utf-8')): the state of the module-level
\* hash object after the call
SHA_update(sha, reference_value) == sha \o reference_value.str

\* the node returned, given the state of SHA after the update
mint_reference_node(sha) == URIRef(WDREF \o hexdigest(sha))

(***************************************************************************)
(* convert: one iteration of the loop over the lines of fin                *)
(***************************************************************************)
\* zip(*[iter(fields)] * 2): consecutive pairs, a last unpaired field dropped
zip2(fields) ==
  [k \in 1..(Len(fields) \div 2) |-> <<fields[2 * k - 1], fields[2 * k]>>]

IsQualifier(pair) == startswith(pair[1], "P")

\* "else" in place of "elif prop.startswith('S')"
IsReference_else(pair) == ~startswith(pair[1], "P")

IsReference(pair) == ~startswith(pair[1], "P") /\ startswith(pair[1], "S")

\* the predicate of a qualifier and of a reference triple
qualifier_predicate(prop) == URIRef(PQ \o prop)

reference_predicate(prop) == URIRef(PR \o replace(prop, "S", "P"))

Call(val, hv) == [value |-> val, result |-> hv]

\* the loop over qualifiers; acc is the graph, the warnings logged, the
\* exception raised and the handle_value calls made so far
RECURSIVE add_qualifiers(_, _, _)
add_qualifiers(qualifiers, st_node, acc) ==
  IF qualifiers = <<>> \/ acc.exc # "" THEN acc
  ELSE
    Let(qualifiers[1][1], LAMBDA prop :
    Let(handle_value(qualifiers[1][2]), LAMBDA hv :
    Let([g        |-> IF hv.exc # "" \/ Falsy(hv.ret) THEN acc.g
                      ELSE acc.g \cup {<<st_node, qualifier_predicate(prop), hv.ret>>},
         warnings |-> acc.warnings + hv.warn,
         exc      |-> hv.exc,
         calls    |-> Append(acc.calls, Call(qualifiers[1][2], hv))],
        LAMBDA acc1 : add_qualifiers(Tail(qualifiers), st_node, acc1))))

\* the loop over references
RECURSIVE add_references(_, _, _)
add_references(references, ref_node, acc) ==
  IF references = <<>> \/ acc.exc # "" THEN acc
  ELSE
    Let(references[1][1], LAMBDA prop :
    Let(handle_value(references[1][2]), LAMBDA hv :
    Let([g        |-> IF hv.exc # "" \/ Falsy(hv.ret) THEN acc.g
                      ELSE acc.g \cup {<<ref_node, reference_predicate(prop), hv.ret>>},
         warnings |-> acc.warnings + hv.warn,
         exc      |-> hv.exc,
         calls    |-> Append(acc.calls, Call(references[1][2], hv))],
        LAMBDA acc1 : add_references(Tail(references), ref_node, acc1))))

\* what an iteration leaves behind: the fields of the line, how the iteration
\* ended, the local variables value, st_node and ref_node (None when not
\* assigned in this iteration) and the handle_value calls made
Iteration(elements, outcome, value, st_node, ref_node, calls) ==
  [elements |-> elements, outcome |-> outcome, value |-> value,
   st_node |-> st_node, ref_node |-> ref_node, calls |-> calls]

NoIteration == Iteration(<<>>, "none", None, None, None, <<>>)

\* the state after an iteration
After(graph, sha, n, warned, exc, iteration) ==
  [g |-> graph, SHA |-> sha, uuids |-> n, warnings |-> warned, exc |-> exc,
   last |-> iteration]

\* the references of an accepted line, after its qualifiers (q)
add_reference_node(elements, value, st_node, references, q, sha, n) ==
  Let(SHA_update(sha, value), LAMBDA sha1 :
  Let(mint_reference_node(sha1), LAMBDA ref_node :
  Let(add_references(references, ref_node,
        [g        |-> q.g \cup {<<st_node, PROV_wasDerivedFrom, ref_node>>},
         warnings |-> q.warnings, exc |-> "", calls |-> q.calls]),
      LAMBDA r :
        After(r.g, sha1, n, r.warnings, r.exc,
              Iteration(elements, IF r.exc # "" THEN "raised" ELSE "added",
                        value, st_node, ref_node, r.calls)))))

\* the statements after the main triples: qualifiers, then references
add_pairs(elements, value, st_node, calls, graph, sha, n, warned) ==
  Let(zip2(From(elements, 4)), LAMBDA quals_and_refs :
  Let(SelectSeq(quals_and_refs, IsQualifier), LAMBDA qualifiers :
  Let(SelectSeq(quals_and_refs, IsReference), LAMBDA references :
  Let(add_qualifiers(qualifiers, st_node,
        [g |-> graph, warnings |-> warned, exc |-> "", calls |-> calls]),
      LAMBDA q :
        IF q.exc # ""
          THEN After(q.g, sha, n, q.warnings, q.exc,
                     Iteration(elements, "raised", value, st_node, None, q.calls))
        ELSE IF references = <<>>
          THEN After(q.g, sha, n, q.warnings, "",
                     Iteration(elements, "added", value, st_node, None, q.calls))
        ELSE add_reference_node(elements, value, st_node, references, q, sha, n)))))

\* the line once its fields passed the checks: the main value, the statement
\* node and the main triples
add_statement(elements, graph, sha, n, warned) ==
  Let(elements[1], LAMBDA subject :
  Let(elements[2], LAMBDA main_pid :
  Let(handle_value(elements[3]), LAMBDA hv :
  Let(mint_statement_node(subject, uuid4(n + 1)), LAMBDA st_node :
    IF hv.exc # ""
      THEN After(graph, sha, n, warned, hv.exc,
                 Iteration(elements, "raised", None, None, None,
                           <<Call(elements[3], hv)>>))
    ELSE IF Falsy(hv.ret)
      THEN After(graph, sha, n, warned + hv.warn, "",
                 Iteration(elements, "no value", hv.ret, None, None,
                           <<Call(elements[3], hv)>>))
    ELSE add_pairs(elements, hv.ret, st_node, <<Call(elements[3], hv)>>,
                   graph \cup {<<URIRef(WD \o subject), URIRef(P \o main_pid), st_node>>,
                               <<st_node, URIRef(PS \o main_pid), hv.ret>>},
                   sha, n + 1, warned)))))

\* the body of the loop, for a line and the state before it
loop_body(line, graph, sha, n, warned) ==
  Let(split(strip(line, Whitespace), "\t"), LAMBDA elements :
    IF Len(elements) < 3
      THEN After(graph, sha, n, warned + 1, "",
                 Iteration(elements, "malformed", None, None, None, <<>>))
    ELSE IF ~ITEM_match(elements[1])
      THEN After(graph, sha, n, warned + 1, "",
                 Iteration(elements, "subject", None, None, None, <<>>))
    ELSE IF ~PROPERTY_match(elements[2])
      THEN After(graph, sha, n, warned + 1, "",
                 Iteration(elements, "property", None, None, None, <<>>))
    ELSE add_statement(elements, graph, sha, n, warned))

(***************************************************************************)
(* Inputs: the lines of the dataset, as the file iterator yields them      *)
(***************************************************************************)
\* the end-to-end example: a bare statement
Line_Q42 ==
  <<"Q","4","2","\t","P","3","1","\t","Q","5","\n">>

\* the end-to-end example with a reference
Line_Ref ==
  <<"Q","1","\t","P","3","1","\t","Q","5","\t","S","1","4","3","\t","Q",
    "3","2","8","\n">>

\* another statement with a reference, of another main value
Line_Ref2 ==
  <<"Q","2","\t","P","3","1","\t","Q","6","\t","S","1","4","3","\t","Q",
    "3","2","8","\n">>

\* fewer than 3 fields
Line_Short ==
  <<"Q","1","\t","P","3","1","\n">>

\* the subject is not a QID
Line_BadSubject ==
  <<"q","1","\t","P","3","1","\t","Q","5","\n">>

\* the main property is not a PID
Line_BadProperty ==
  <<"Q","1","\t","S","3","1","\t","Q","5","\t","P","2","\t","Q","7","\n">>

\* the main value is a time of year 0
Line_ZeroYear ==
  <<"Q","1","\t","P","5","6","9","\t","+","0","-","0","1","-","0","1","T",
    "0","0",":","0","0",":","0","0","Z","/","9","\t","P","2","\t","Q","7",
    "\n">>

\* qualifiers and references, one of each with a time of year 0
Line_Mixed ==
  <<"Q","1","\t","P","3","1","\t","Q","5","\t","P","2","\t","Q","7","\t",
    "P","5","8","5","\t","+","0","-","0","1","-","0","1","T","0","0",":",
    "0","0",":","0","0","Z","/","9","\t","P","3","\t","Q","8","\t","S",
    "4","\t","+","0","-","0","1","-","0","1","T","0","0",":","0","0",":",
    "0","0","Z","/","9","\t","S","1","4","3","\t","Q","3","2","8","\n">>

\* the main value is a location
Line_Location ==
  <<"Q","1","\t","P","6","2","5","\t","@","4","1",".","9","/","1","2",".",
    "5","\n">>

\* a qualifier, a qualifier with a time of year 0, a qualifier with a
\* location, a reference
Line_QualLocation ==
  <<"Q","1","\t","P","3","1","\t","Q","5","\t","P","2","\t","Q","7","\t",
    "P","5","8","5","\t","+","0","-","0","1","-","0","1","T","0","0",":",
    "0","0",":","0","0","Z","/","9","\t","P","6","2","5","\t","@","1",".",
    "5","/","2",".","5","\t","S","1","4","3","\t","Q","3","2","8","\n">>

\* a pair of another sigil, a qualifier and a last unpaired field
Line_Other ==
  <<"Q","1","\t","P","3","1","\t","Q","5","\t","X","1","\t","Q","7","\t",
    "P","2","\t","Q","8","\t","P","5","8","0","\n">>

\* surrounding whitespace; the last field is left unpaired by strip
Line_Padded ==
  <<" ","Q","4","2","\t","P","3","1","\t","Q","5","\t","S","2","\t","\n">>

\* the main value is the quantity zero
Line_Zero ==
  <<"Q","1","\t","P","1","0","8","2","\t","+","0","\n">>

\* keys holding S after the sigil
Line_Sigils ==
  <<"Q","1","\t","P","3","1","\t","Q","5","\t","S","S","1","\t","Q","7",
    "\t","P","S","2","\t","Q","8","\n">>

\* empty strings as reference and qualifier values
Line_Empty ==
  <<"Q","1","\t","P","3","1","\t","Q","5","\t","S","1","\t","\"","\"",
    "\t","P","2","\t","\"","\"","\n">>

StatementLines ==
  <<Line_Q42, Line_Ref, Line_Ref2, Line_Short,
    Line_BadSubject, Line_BadProperty, Line_ZeroYear, Line_Mixed,
    Line_Location, Line_QualLocation, Line_Other, Line_Padded,
    Line_Zero, Line_Sigils, Line_Empty>>

\* the longest dataset of statement lines
MaxLines == 2

\* value tokens of every shape
TimeYears ==
  {<<"1","9","9","0">>, <<"9","3","1">>, <<"7">>,
   <<"0","0","0","0","0","0","0","0","9","3","1">>,
   <<"0">>, <<"0","0","0","0">>,
   <<"1","2","3","4","5">>, <<"0","0","1","2","3","4","5">>}

TimeTokens ==
  {sign \o year \o
     <<"-","0","5","-","1","2","T","0","0",":","0","0",":","0","0","Z","/","1","1">> :
     sign \in {<<"+">>, <<"-">>}, year \in TimeYears}

LocationTokens ==
  {<<"@","4","1",".","9","/","1","2",".","5">>,
   <<"@","-","1",".","5","/","+","2",".","5">>,
   <<"@","1","2","/","3","4","5">>}

OtherTokens ==
  {<<"+","5",".","5">>,
   <<"-","0",".","0">>,
   <<"e","n",":","\"","h","e","l","l","o","\"">>,
   <<"e","n",":","\"","\"">>,
   <<"\"","a","b","c","\"">>,
   <<"\"","h","t","t","p",":","/","/","a",".","b","/","c","\"">>,
   <<"h","t","t","p",":","/","/","[","x">>,
   <<"H","T","T","P",":","/","/","A",".","b","/">>,
   <<"\"","\"">>,
   <<"Q","5">>,
   <<"a","b","c">>,
   <<"h","t","t","p",":","/","a">>}

ValueTokens == TimeTokens \cup LocationTokens \cup OtherTokens

\* a line holding the token as main value, as qualifier value or as
\* reference value
ValuePrefixes ==
  {<<"Q","1","\t","P","1","\t">>,
   <<"Q","1","\t","P","1","\t","Q","5","\t","P","2","\t">>,
   <<"Q","1","\t","P","1","\t","Q","5","\t","S","2","\t">>}

ValueLines ==
  {prefix \o token \o <<"\n">> : prefix \in ValuePrefixes, token \in ValueTokens}

\* the datasets: every sequence of at most MaxLines statement lines, and every
\* value line alone
Inputs ==
  UNION {[1..n -> {StatementLines[i] : i \in 1..Len(StatementLines)}] : n \in 0..MaxLines}
    \cup {<<line>> : line \in ValueLines}

(***************************************************************************)
(* State                                                                   *)
(***************************************************************************)
VARIABLES
  fin,       \* the lines of the dataset not read yet
  g,         \* the graph: a set of triples
  SHA,       \* the module-level hash object: the bytes it was updated with
  uuids,     \* the number of UUIDs drawn
  warnings,  \* the number of warnings logged
  pc,        \* "loop" in the for loop, "done" once serialized, "raised" once
             \* an exception left convert
  fout,      \* the triples written to the output file
  last       \* the last iteration of the loop

vars == <<fin, g, SHA, uuids, warnings, pc, fout, last>>

Init ==
  /\ fin \in Inputs
  /\ g = {}
  /\ SHA = <<>>
  /\ uuids = 0
  /\ warnings = 0
  /\ pc = "loop"
  /\ fout = {}
  /\ last = NoIteration

\* one iteration of "for statement in fin"
ProcessLine ==
  /\ pc = "loop"
  /\ fin # <<>>
  /\ \E after \in {loop_body(Head(fin), g, SHA, uuids, warnings)} :
       /\ g' = after.g
       /\ SHA' = after.SHA
       /\ uuids' = after.uuids
       /\ warnings' = after.warnings
       /\ last' = after.last
       /\ pc' = IF after.exc # "" THEN "raised" ELSE "loop"
  /\ fin' = Tail(fin)
  /\ UNCHANGED fout

\* g.serialize(destination=fout, format='turtle'), once the lines are exhausted
Serialize ==
  /\ pc = "loop"
  /\ fin = <<>>
  /\ fout' = g
  /\ pc' = "done"
  /\ UNCHANGED <<fin, g, SHA, uuids, warnings, last>>

Next == ProcessLine \/ Serialize

Spec == Init /\ [][Next]_vars

(***************************************************************************)
(* Properties.  The shapes of identifiers and of coordinates are stated on *)
(* their own, apart from the matchers of the program.                      *)
(***************************************************************************)
HasPrefix(s, prefix) ==
  Len(s) >= Len(prefix) /\ SubSeq(s, 1, Len(prefix)) = prefix

\* the tab-separated fields of a line, after stripping
Fields(line) == split(strip(line, Whitespace), "\t")

\* a letter followed by one or more digits
IsId(s, letter) ==
  Len(s) >= 2 /\ s[1] = letter /\ \A i \in 2..Len(s) : s[i] \in Digits

\* the validation gate
FailsGate(F) == Len(F) < 3 \/ ~IsId(F[1], "Q") \/ ~IsId(F[2], "P")

\* the year digits of a timestamp token: between the sign and the next dash
YearOf(token) == SubSeq(token, 2, Find(Tail(token), "-"))

\* the classifier rejects a token: a timestamp whose year is zero
Rejects(token) ==
  TIME_match(token) /\ \A i \in 1..Len(YearOf(token)) : YearOf(token)[i] = "0"

\* a line that passes the gate and whose main value is not rejected
Accepted(F) == ~FailsGate(F) /\ ~Rejects(F[3])

\* the pairs of the fields after the main value, two at a time
NPairs(F) == (Len(F) - 3) \div 2

PairKey(F, k) == F[2 * k + 2]

PairValue(F, k) == F[2 * k + 3]

\* the pairs whose key starts with the sigil
PairsOf(F, sigil) == {k \in 1..NPairs(F) : startswith(PairKey(F, k), sigil)}

\* an iteration of the loop is about to run
AtLine == pc = "loop" /\ fin # <<>>

\* the two main triples of the line are new, on a node the graph did not hold
MainTriplesAdded(F) ==
  \E t \in g' \ g :
    /\ t[1] = URIRef(WD \o F[1])
    /\ t[2] = URIRef(P \o F[2])
    /\ \A u \in g : u[1] # t[3] /\ u[3] # t[3]
    /\ \E v \in g' \ g :
         /\ v[1] = t[3]
         /\ v[2] = URIRef(PS \o F[2])
         /\ (IsId(F[3], "Q") => v[3] = URIRef(WD \o F[3]))

\* C1: whatever the fields of the lines hold, no line makes the processing
\* of lines raise an exception: convert stays in its loop until it serializes.
C1_NoLineRaises == pc # "raised"

\* C2: a line that fails the validation gate leaves the graph as it was, logs
\* exactly one warning, and the loop goes on with the next line.
C2_GateFailureSkipsLine ==
  [][(AtLine /\ FailsGate(Fields(Head(fin)))) =>
       /\ g' = g
       /\ warnings' = warnings + 1
       /\ pc' = "loop"
       /\ fin' = Tail(fin)]_vars

\* C2 happens: a line with a malformed main property was skipped with its
\* warning, after a line that added triples
C2_Witness ==
  /\ last.outcome = "property"
  /\ g # {}
  /\ warnings = 1
  /\ pc = "loop"

\* C3: a line that passes the gate and whose main value is not a timestamp of
\* year 0 adds its two main triples on a fresh statement node; a line whose
\* main value is rejected adds nothing.
C3_MainTriples ==
  [][AtLine =>
       LET F == Fields(Head(fin))
       IN  /\ Accepted(F) => MainTriplesAdded(F)
           /\ (~FailsGate(F) /\ Rejects(F[3])) => g' = g]_vars

\* a signed decimal: an optional sign, digits, and an optional fraction
IsSignedDecimal(s) ==
  LET u == IF s # <<>> /\ s[1] \in {"+", "-"} THEN Tail(s) ELSE s
      dot == Find(u, ".")
  IN  IF dot = 0 THEN u # <<>> /\ \A i \in 1..Len(u) : u[i] \in Digits
      ELSE /\ dot > 1 /\ dot < Len(u)
           /\ \A i \in 1..Len(u) : i # dot => u[i] \in Digits

\* a geo token @LAT/LON
GeoLat(token) == SubSeq(token, 2, Find(token, "/") - 1)

GeoLon(token) == From(token, Find(token, "/") + 1)

IsGeoToken(token) ==
  /\ startswith(token, "@")
  /\ Find(token, "/") > 0
  /\ IsSignedDecimal(GeoLat(token))
  /\ IsSignedDecimal(GeoLon(token))

\* C4: for a token @LAT/LON of signed decimals, handle_value returns the
\* literal 'Point(LON LAT)' typed geo:wktLiteral, longitude first, both
\* coordinates copied from the token.
C4_GeoPoint ==
  \A i \in 1..Len(last.calls) :
    LET call == last.calls[i]
    IN  IsGeoToken(call.value) =>
          /\ call.result.exc = ""
          /\ call.result.ret =
               Literal(<<"P","o","i","n","t","(">> \o GeoLon(call.value) \o <<" ">>
                         \o GeoLat(call.value) \o <<")">>,
                       GEO_wktLiteral, <<>>)

\* the parts of a timestamp token and of the literal made of it
TimeSign(token) == token[1]

\* from the dash after the year up to the slash
TimeRest(token) ==
  SubSeq(token, Find(Tail(token), "-") + 1, Find(token, "/") - 1)

OutSign(lex) == IF startswith(lex, "-") THEN <<"-">> ELSE <<>>

OutUnsigned(lex) == IF startswith(lex, "-") THEN Tail(lex) ELSE lex

OutYear(lex) == SubSeq(OutUnsigned(lex), 1, Find(OutUnsigned(lex), "-") - 1)

OutRest(lex) == From(OutUnsigned(lex), Find(OutUnsigned(lex), "-"))

\* what C5 says of every timestamp but for the number of digits of the year
TimeLiteral(token, result) ==
  /\ result.exc = ""
  /\ IF Rejects(token) THEN result.ret = None /\ result.warn = 1
     ELSE /\ result.ret.term = "Literal"
          /\ result.ret.datatype = XSD_dateTime
          /\ result.ret.lang = <<>>
          /\ OutSign(result.ret.str) = (IF TimeSign(token) = "-" THEN <<"-">> ELSE <<>>)
          /\ OutRest(result.ret.str) = TimeRest(token)
          /\ AllDigits(OutYear(result.ret.str))
          /\ int(OutYear(result.ret.str)) = int(YearOf(token))
          /\ Len(YearOf(token)) = 4 => OutYear(result.ret.str) = YearOf(token)

MainValues(node) == {t[3] : t \in {u \in g : u[1] = node /\ HasPrefix(u[2].str, PS)}}

\* C6: the reference node of a line is a function of its main value: two
\* lines with references and the same main value get the same reference
\* node, whatever was processed before them.
C6_ReferenceNodeOfValue ==
  \A t1, t2 \in {t \in g : t[2] = PROV_wasDerivedFrom} :
    MainValues(t1[1]) = MainValues(t2[1]) => t1[3] = t2[3]

\* C7: an accepted line gets one reference node, linked once from its
\* statement node, exactly when it has a pair whose key starts with S; every
\* such pair whose value is not rejected adds a triple on the reference node,
\* its predicate pr: followed by the key with the leading S replaced by P.
C7_References ==
  [][AtLine =>
       LET F == Fields(Head(fin))
           derived == {t \in g' \ g : t[2] = PROV_wasDerivedFrom}
       IN  Accepted(F) =>
             IF PairsOf(F, "S") = {} THEN derived = {}
             ELSE /\ Cardinality(derived) = 1
                  /\ \A t \in derived : \A k \in PairsOf(F, "S") :
                       ~Rejects(PairValue(F, k)) =>
                         \E u \in g' \ g :
                           /\ u[1] = t[3]
                           /\ u[2] = URIRef(PR \o <<"P">> \o Tail(PairKey(F, k)))
                           /\ IsId(PairValue(F, k), "Q") =>
                                u[3] = URIRef(WD \o PairValue(F, k))]_vars

\* the triple of the k-th pair is new: a qualifier on a statement node, a
\* reference on a node derived from it
PairTripleAdded(F, k) ==
  \E u \in g' \ g :
    /\ IsId(PairValue(F, k), "Q") => u[3] = URIRef(WD \o PairValue(F, k))
    /\ IF startswith(PairKey(F, k), "P")
         THEN u[2] = URIRef(PQ \o PairKey(F, k))
         ELSE HasPrefix(u[2].str, PR)

\* C8: in an accepted line, a qualifier or reference pair whose value is
\* rejected is skipped alone: it adds no triple, the two main triples and
\* the triple of every other qualifier and reference pair are added, and
\* the loop goes on.
C8_RejectedPairSkippedAlone ==
  [][AtLine =>
       LET F == Fields(Head(fin))
           pairs == PairsOf(F, "P") \cup PairsOf(F, "S")
           kept  == {k \in pairs : ~Rejects(PairValue(F, k))}
       IN  (Accepted(F) /\ kept # pairs) =>
             /\ MainTriplesAdded(F)
             /\ \A k \in kept : PairTripleAdded(F, k)
             /\ Cardinality(g' \ g) <=
                  2 + Cardinality(kept) + (IF PairsOf(F, "S") = {} THEN 0 ELSE 1)
             /\ pc' = "loop"]_vars

\* the statement node and the reference node a step adds for the fields F
NewStatementNodes(F) ==
  {t[3] : t \in {u \in g' \ g : u[1] = URIRef(WD \o F[1]) /\ u[2] = URIRef(P \o F[2])}}

NewReferenceNodes(F) ==
  {t[3] : t \in {u \in g' \ g :
                   u[2] = PROV_wasDerivedFrom /\ u[1] \in NewStatementNodes(F)}}

\* C9: the fields after the main value are paired two at a time, in order;
\* a last unpaired field adds no triple and raises no error: the line does
\* what it does without that field; a pair is a qualifier when its key
\* starts with P, and is added only as (statement node, pq:key, value); it
\* is a reference when its key starts with S, and is added only on the
\* reference node; a pair with any other key adds no triple.
C9_PairsByFirstCharacter ==
  [][AtLine =>
       LET F == Fields(Head(fin))
           without == add_statement(SubSeq(F, 1, Len(F) - 1), g, SHA, uuids, warnings)
       IN  ~FailsGate(F) =>
             /\ \A t \in g' \ g :
                  \/ t[1] = URIRef(WD \o F[1]) /\ t[2] = URIRef(P \o F[2])
                  \/ t[1] \in NewStatementNodes(F) /\ t[2] = URIRef(PS \o F[2])
                  \/ /\ t[1] \in NewStatementNodes(F)
                     /\ t[2] = PROV_wasDerivedFrom
                     /\ PairsOf(F, "S") # {}
                  \/ \E k \in PairsOf(F, "P") :
                       /\ t[1] \in NewStatementNodes(F)
                       /\ t[2] = URIRef(PQ \o PairKey(F, k))
                       /\ t[3] = handle_value(PairValue(F, k)).ret
                  \/ \E k \in PairsOf(F, "S") :
                       /\ t[1] \in NewReferenceNodes(F)
                       /\ HasPrefix(t[2].str, PR)
                       /\ t[3] = handle_value(PairValue(F, k)).ret
             /\ (Len(F) > 3 /\ (Len(F) - 3) % 2 = 1) =>
                  /\ g' = without.g
                  /\ warnings' = without.warnings
                  /\ (pc' = "raised") = (without.exc # "")]_vars

\* C9 happens: a line with a pair of another sigil, a qualifier and a last
\* unpaired field added its main triples and the triple of the qualifier
C9_Witness ==
  /\ last.outcome = "added"
  /\ last.elements = Fields(Line_Other)
  /\ Len(last.elements) = 8
  /\ PairsOf(last.elements, "P") = {2}
  /\ PairsOf(last.elements, "S") = {}
  /\ Cardinality(g) = 3
  /\ \E t \in g : t[1] = last.st_node /\ t[2] = URIRef(PQ \o <<"P","2">>)

\* the terms of a graph, and its nodes of the wds: namespace
Terms(graph) == UNION {{t[1], t[2], t[3]} : t \in graph}

StatementNodes(graph) ==
  {x \in Terms(graph) : x.term = "URIRef" /\ HasPrefix(x.str, WDS)}

\* the graph is well formed
GraphOk(graph, minted) ==
  \* one statement node per accepted line
  /\ Cardinality(StatementNodes(graph)) = minted
  \* a statement node has one (wd:S, p:Pn, node) and one (node, ps:Pn, value)
  /\ \A node \in StatementNodes(graph) :
       LET into == {t \in graph : t[3] = node}
           main == {t \in graph : t[1] = node /\ HasPrefix(t[2].str, PS)}
       IN  /\ Cardinality(into) = 1
           /\ Cardinality(main) = 1
           /\ \A t \in into : \A u \in main :
                /\ HasPrefix(t[1].str, WD) /\ IsId(From(t[1].str, Len(WD) + 1), "Q")
                /\ HasPrefix(t[2].str, P) /\ IsId(From(t[2].str, Len(P) + 1), "P")
                /\ From(t[2].str, Len(P) + 1) = From(u[2].str, Len(PS) + 1)
  \* a pq: triple is on a statement node
  /\ \A t \in graph :
       HasPrefix(t[2].str, PQ) => t[1] \in StatementNodes(graph)
  \* a node with a pr: triple is derived from a statement node
  /\ \A t \in graph :
       HasPrefix(t[2].str, PR) =>
         \E u \in graph :
           /\ u[1] \in StatementNodes(graph)
           /\ u[2] = PROV_wasDerivedFrom
           /\ u[3] = t[1]

\* C10: after every line the graph has only grown, and it is well formed:
\* the statement nodes of the accepted lines are distinct, each is the object
\* of exactly one (wd:S, p:Pn, node) triple and the subject of exactly one
\* (node, ps:Pn, value) triple of the same Pn, every pq: triple is on a
\* statement node, and every node with a pr: triple is derived from a
\* statement node.
C10_GraphInvariant ==
  [][/\ g \subseteq g'
     /\ GraphOk(g, uuids)
     /\ GraphOk(g', uuids')]_vars

\* C10 happens: two accepted lines, with a qualifier and a reference triple
C10_Witness ==
  /\ uuids = 2
  /\ Cardinality(StatementNodes(g)) = 2
  /\ \E t \in g : HasPrefix(t[2].str, PQ)
  /\ \E t \in g : HasPrefix(t[2].str, PR)
  /\ pc = "done"

====
